---------------------------- MODULE Spec2Model ----------------------------
(***************************************************************************)
(* A model of parseProfilerForFlameGraph (src/src/parser.ts): the          *)
(* transformation of a React profiler export into flame graph trees.       *)
(*                                                                         *)
(* Conventions                                                             *)
(*  - A string is a sequence of tokens (<<"Memo(", "Foo", ")">>), so that  *)
(*    the regular expression of parseMemo, String.includes and the string  *)
(*    concatenations are computed, not assumed.  The empty sequence is     *)
(*    both null and "" (the code only tests display names for truthiness). *)
(*  - A duration is an integer number of hundredths of a millisecond; the  *)
(*    exports use 0, 4 (0.04 ms, which rounds to a value of 0) and 150.    *)
(*  - An optional value (undefined | x) is a sequence of length 0 or 1.    *)
(*  - A JavaScript object with integer keys is [keys, val]: keys holds the *)
(*    property names in insertion order, val the values; Object.keys       *)
(*    lists integer keys in ascending order (ObjectKeys).                  *)
(*  - The recursion of buildNode is an explicit call stack.                *)
(***************************************************************************)
EXTENDS Integers, Sequences, FiniteSets, TLC

VARIABLES
    json,                     \* the export handed to the call
    call,                     \* 1: the first call, 2: the call on the re-encoded export
    first,                    \* <<outcome of the first call>> once the second started
    pc,                       \* position of the call
    err,                      \* the exception that ended the call, or "none"
    componentDurations,       \* parser.ts:99   canonical name -> queue
    componentTotalDurations,  \* parser.ts:100  canonical name -> queue
    r,                        \* index of the root entry being processed
    snapshots,                \* the normalized table of root entry r
    rootId,                   \* <<the id chosen as root>> of root entry r
    stack,                    \* the active buildNode calls, innermost last
    ret,                      \* <<value returned by the call that just ended>>
    result,                   \* parser.ts:87
    log                       \* history: one entry per queue lookup, in time order

vars == <<json, call, first, pc, err, componentDurations, componentTotalDurations,
          r, snapshots, rootId, stack, ret, result, log>>

-----------------------------------------------------------------------------
(* Bounds of the model *)

MaxId == 3
MaxMeasures == 2
MaxFibers == 2
MaxRoots == 2

(* Program constants *)

FragmentTag == 11

\* Any other type tag (a function component).
ComponentTag == 5

NullName == <<>>
App == <<"App">>
Foo == <<"Foo">>
MemoFoo == <<"Memo(", "Foo", ")">>
AppRouter == <<"App", "Router">>
Unknown == <<"Unknown">>
Fragment == <<"Fragment">>

-----------------------------------------------------------------------------
(* Strings *)

Includes(name, token) == \E i \in 1..Len(name) : name[i] = token

\* name.match(/^Memo\((.+)\)$/): "Memo(", at least one character, ")".
parseMemo(name) ==
    IF Len(name) >= 3 /\ name[1] = "Memo(" /\ name[Len(name)] = ")"
    THEN [base |-> SubSeq(name, 2, Len(name) - 1), isMemo |-> TRUE]
    ELSE [base |-> name, isMemo |-> FALSE]

\* isMemo ? `${base} (Memo)` : base
CanonicalName(name) ==
    LET m == parseMemo(name)
    IN  IF m.isMemo THEN m.base \o <<" (Memo)">> ELSE m.base

-----------------------------------------------------------------------------
(* Numbers and sequences *)

Max(a, b) == IF a >= b THEN a ELSE b

Min(S) == CHOOSE x \in S : \A y \in S : x <= y

RECURSIVE SortedSeq(_)
SortedSeq(S) == IF S = {} THEN <<>> ELSE <<Min(S)>> \o SortedSeq(S \ {Min(S)})

Range(s) == {s[i] : i \in 1..Len(s)}

\* Math.round(d * 10) of a duration d >= 0 given in hundredths.
Round10(d) == (d + 5) \div 10

-----------------------------------------------------------------------------
(* JavaScript objects with integer keys *)

EmptyObject == [keys |-> <<>>, val |-> <<>>]

SetProperty(obj, id, v) ==
    IF id \in DOMAIN obj.val
    THEN [obj EXCEPT !.val[id] = v]
    ELSE [keys |-> Append(obj.keys, id), val |-> obj.val @@ (id :> v)]

\* Object.fromEntries(pairs): later pairs overwrite earlier ones.
RECURSIVE FromEntriesInto(_, _)
FromEntriesInto(obj, pairs) ==
    IF pairs = <<>> THEN obj
    ELSE FromEntriesInto(SetProperty(obj, Head(pairs)[1], Head(pairs)[2]), Tail(pairs))

FromEntries(pairs) == FromEntriesInto(EmptyObject, pairs)

\* Mutant of ObjectKeys: the keys in insertion order, as for keys that are
\* no integers.
ObjectKeysInInsertionOrder(obj) == obj.keys

\* Object.keys(obj).map(Number): integer keys come in ascending order,
\* whatever the order they were inserted in.
ObjectKeys(obj) == SortedSeq(Range(obj.keys))

\* obj[id]: <<>> is undefined.
Get(obj, id) == IF id \in DOMAIN obj.val THEN <<obj.val[id]>> ELSE <<>>

\* Array.isArray(root.snapshots) ? Object.fromEntries(root.snapshots) : root.snapshots
\* <<>> is undefined (the property is absent from the root entry).
Normalize(raw) ==
    IF raw.form = "array" THEN <<FromEntries(raw.pairs)>>
    ELSE IF raw.form = "object" THEN <<raw.obj>>
    ELSE <<>>

-----------------------------------------------------------------------------
(* The duration index *)

HasEntry(q, name) == name \in DOMAIN q /\ Len(q[name]) > 0

\* if (!q[name]) q[name] = []; q[name].push(d)
Push(q, name, d) ==
    IF name \in DOMAIN q THEN [q EXCEPT ![name] = Append(@, d)]
    ELSE q @@ (name :> <<d>>)

\* q[name].shift()
Shift(q, name) == [q EXCEPT ![name] = Tail(@)]

\* The loops over json.timelineData and timeline.componentMeasures, on the
\* measures of all timelines in document order.
RECURSIVE ScanMeasures(_, _)
ScanMeasures(q, measures) ==
    IF measures = <<>> THEN q
    ELSE LET m == Head(measures)
         IN  ScanMeasures(
                 IF m.componentName # NullName /\ m.type = "render"
                 THEN Push(q, CanonicalName(m.componentName), m.duration)
                 ELSE q,
                 Tail(measures))

\* The loops over root.commitData and commit.fiberActualDurations of one
\* root entry whose snapshots normalize to the object snap.
RECURSIVE ScanFibers(_, _, _)
ScanFibers(q, snap, fibers) ==
    IF fibers = <<>> THEN q
    ELSE LET node == Get(snap, Head(fibers)[1])
         IN  ScanFibers(
                 IF node # <<>> /\ node[1].displayName # NullName
                 THEN Push(q, CanonicalName(node[1].displayName), Head(fibers)[2])
                 ELSE q,
                 snap, Tail(fibers))

-----------------------------------------------------------------------------
(* Root selection *)

IsAppOrRouter(name) == name # NullName /\ (Includes(name, "Router") \/ name = App)

\* Mutant of SelectRoot: the first node with a display name, 'App' and
\* 'Router' not looked for.
SelectRootFirstNamed(snap) ==
    LET keys  == ObjectKeys(snap)
        named == {i \in 1..Len(keys) : snap.val[keys[i]].displayName # NullName}
    IN  IF named # {} THEN keys[Min(named)] ELSE keys[1]

SelectRoot(snap) ==
    LET keys   == ObjectKeys(snap)
        marked == {i \in 1..Len(keys) : IsAppOrRouter(snap.val[keys[i]].displayName)}
        named  == {i \in 1..Len(keys) : snap.val[keys[i]].displayName # NullName}
        id     == IF marked # {} THEN keys[Min(marked)] ELSE keys[1]
    IN  IF snap.val[id].displayName = NullName /\ named # {}
        THEN keys[Min(named)]
        ELSE id

-----------------------------------------------------------------------------
(* buildNode *)

\* { name: 'Unknown', value: 1 }
Stub ==
    [name |-> Unknown, value |-> 1, tooltip |-> <<>>, backgroundColor |-> <<>>,
     color |-> <<>>, children |-> <<>>]

\* Mutant of IsUnwrapped: a fragment with several children is unwrapped to
\* its first child.
IsUnwrappedWithSeveral(node) == node.type = FragmentTag /\ Len(node.children) >= 1

\* node.type === 11 && node.children && node.children.length === 1
IsUnwrapped(node) == node.type = FragmentTag /\ Len(node.children) = 1

\* node.displayName || (node.type === 11 ? 'Fragment' : 'Unknown')
DisplayNameOf(node) ==
    IF node.displayName # NullName THEN node.displayName
    ELSE IF node.type = FragmentTag THEN Fragment ELSE Unknown

RECURSIVE SumValues(_)
SumValues(kids) == IF kids = <<>> THEN 0 ELSE Head(kids).value + SumValues(Tail(kids))

\* children: undefined unless node.children.length > 0
ChildrenOf(node, kids) == IF Len(node.children) > 0 THEN <<kids>> ELSE <<>>

\* Mutant of AppendChild: the built children in the opposite order.
PrependChild(kids, child) == <<child>> \o kids

\* children = node.children.map(...): the built children, in the order of the ids
AppendChild(kids, child) == Append(kids, child)

\* actualDuration !== undefined ? actualDuration : duration
FinalDuration(actualDuration, duration) ==
    IF actualDuration # <<>> THEN actualDuration ELSE duration

\* Mutant of NodeValue: no floor of 1 on the scaled duration.
NodeValueWithoutFloor(finalDuration, totalChildValue) ==
    IF finalDuration # <<>> /\ finalDuration[1] > 0
    THEN Round10(finalDuration[1])
    ELSE Max(1, totalChildValue)

\* Mutant of NodeValue: a matched duration of 0 is scaled as well.
NodeValueOfAnyMatch(finalDuration, totalChildValue) ==
    IF finalDuration # <<>>
    THEN Max(1, Round10(finalDuration[1]))
    ELSE Max(1, totalChildValue)

NodeValue(finalDuration, totalChildValue) ==
    IF finalDuration # <<>> /\ finalDuration[1] > 0
    THEN Max(1, Round10(finalDuration[1]))
    ELSE Max(1, totalChildValue)

\* d.toFixed(1) and d.toFixed(2) of a duration in hundredths.
ToFixed1(d) ==
    LET t == (d + 5) \div 10 IN <<ToString(t \div 10), ".", ToString(t % 10)>>

ToFixed2(d) ==
    <<ToString(d \div 100), ".", ToString((d % 100) \div 10), ToString(d % 10)>>

NameWithDuration(componentName, finalDuration) ==
    IF finalDuration = <<>> THEN componentName
    ELSE IF finalDuration[1] = 0 THEN componentName \o <<" (<0.1ms)">>
    ELSE componentName \o <<" (">> \o ToFixed1(finalDuration[1]) \o <<"ms)">>

BackgroundColor(finalDuration) ==
    IF finalDuration = <<>> THEN "#9ca3af"
    ELSE IF finalDuration[1] = 0 THEN "#22c55e"
    ELSE IF finalDuration[1] < 50 THEN "#84cc16"
    ELSE IF finalDuration[1] < 200 THEN "#eab308"
    ELSE IF finalDuration[1] < 500 THEN "#f97316"
    ELSE "#ef4444"

Color(finalDuration) ==
    IF finalDuration # <<>> /\ finalDuration[1] >= 50 /\ finalDuration[1] < 200
    THEN "#000000" ELSE "#ffffff"

Tooltip(componentName, finalDuration) ==
    <<"Component: ">> \o componentName \o
    (IF finalDuration = <<>> THEN <<"\nDid not rerender">>
     ELSE <<"\nRender time: ">> \o ToFixed2(finalDuration[1]) \o <<"ms">>)

\* Mutant of Taken: the last entry of the queue (pop for shift).
TakenFromBack(q, name) == IF HasEntry(q, name) THEN <<q[name][Len(q[name])]>> ELSE <<>>

\* if (q[name] && q[name].length > 0) x = q[name].shift(): the value taken
Taken(q, name) == IF HasEntry(q, name) THEN <<Head(q[name])>> ELSE <<>>

\* ... and the queues after it
AfterTaken(q, name) == IF HasEntry(q, name) THEN Shift(q, name) ELSE q

\* The object returned at parser.ts:236-243 for a snapshot node whose
\* children were built as kids, given what the two lookups found.
BuildOutput(node, kids, actualDuration, duration) ==
    LET componentName == CanonicalName(DisplayNameOf(node))
        finalDuration == FinalDuration(actualDuration, duration)
    IN  [name |-> NameWithDuration(componentName, finalDuration),
         value |-> NodeValue(finalDuration, SumValues(kids)),
         tooltip |-> <<Tooltip(componentName, finalDuration)>>,
         backgroundColor |-> <<BackgroundColor(finalDuration)>>,
         color |-> <<Color(finalDuration)>>,
         children |-> ChildrenOf(node, kids)]

-----------------------------------------------------------------------------
(* The exports the calls are made on *)

SnapshotNode(displayName, type, children) ==
    [displayName |-> displayName, type |-> type, children |-> children]

ArrayForm(pairs) == [form |-> "array", pairs |-> pairs, obj |-> EmptyObject]
ObjectForm(obj) == [form |-> "object", pairs |-> <<>>, obj |-> obj]
Absent == [form |-> "absent", pairs |-> <<>>, obj |-> EmptyObject]

RootData(snap, fibers) == [snapshots |-> snap, fiberActualDurations |-> fibers]

Measure(componentName, duration, type) ==
    [componentName |-> componentName, duration |-> duration, type |-> type]

Export(roots, measures) == [dataForRoots |-> roots, componentMeasures |-> measures]

\* The sequences of length at most n over S.
SeqsUpTo(S, n) == UNION {[1..k -> S] : k \in 0..n}

\* The child id lists of a forest of n nodes: node j is a child of parent[j]
\* (0: of no node), children in ascending order of id.
ForestLists(parent, n) == [i \in 1..n |-> SortedSeq({j \in 1..n : parent[j] = i})]

\* The forests of n nodes in which a parent's id is less than its children's.
Forests(n) == {parent \in [1..n -> 0..n] : \A j \in 1..n : parent[j] < j}

\* One more child id in one list: extra = <<node, id, front>> puts id first
\* (front = 1) or last in the list of node; node = 0 changes nothing.  The
\* id may repeat a child, name an ancestor or the node itself, or be n+1,
\* which no table of n nodes holds.
WithExtra(lists, extra) ==
    IF extra[1] = 0 THEN lists
    ELSE [lists EXCEPT ![extra[1]] =
             IF extra[3] = 1 THEN <<extra[2]>> \o @ ELSE Append(@, extra[2])]

Extras(n) == {<<0, 0, 0>>} \cup ((1..n) \X (1..(n + 1)) \X {0, 1})

\* One node with every other as its children; each node with the next as
\* its only child.
Fan(n) == [i \in 1..n |-> IF i = 1 THEN [j \in 1..(n - 1) |-> j + 1] ELSE <<>>]
Chain(n) == [i \in 1..n |-> IF i < n THEN <<i + 1>> ELSE <<>>]

\* The pairs (id, node) of a table in ascending order of id.
PairsOf(names, types, lists) ==
    [i \in 1..Len(lists) |-> <<i, SnapshotNode(names[i], types[i], lists[i])>>]

Reverse(s) == [i \in 1..Len(s) |-> s[Len(s) + 1 - i]]

Rotate(s, k) == [i \in 1..Len(s) |-> s[((i + k - 1) % Len(s)) + 1]]

\* The rotations of s and of s reversed (every order of s when Len(s) <= 3).
Orders(s) == UNION {{Rotate(s, k), Rotate(Reverse(s), k)} : k \in 0..(Len(s) - 1)}

\* The object a JSON text with these members in this order parses to.
ObjectOf(pairs) ==
    [keys |-> [i \in 1..Len(pairs) |-> pairs[i][1]],
     val  |-> [id \in {pairs[i][1] : i \in 1..Len(pairs)} |->
                  (CHOOSE pr \in Range(pairs) : pr[1] = id)[2]]]

\* The same table written the other way, its members in the opposite order:
\* an array of pairs becomes the object a JSON text with these members
\* parses to, an object becomes the array of its members.
ReEncodedSnapshots(raw) ==
    IF raw.form = "array"
    THEN ObjectForm(ObjectOf(Reverse(raw.pairs)))
    ELSE IF raw.form = "object"
    THEN ArrayForm(Reverse([i \in 1..Len(raw.obj.keys) |->
                               <<raw.obj.keys[i], raw.obj.val[raw.obj.keys[i]]>>]))
    ELSE raw

ReEncoded(export) ==
    [export EXCEPT !.dataForRoots =
        [i \in 1..Len(export.dataForRoots) |->
            [export.dataForRoots[i] EXCEPT !.snapshots = ReEncodedSnapshots(@)]]]

FooRender == <<Measure(Foo, 150, "render"), Measure(Foo, 0, "render")>>

\* One root entry: a forest of at most MaxId nodes with at most one extra
\* child id, of components named Foo and anonymous fragments, with two
\* render measures of Foo or none.
ShapeExport ==
    \E n \in 1..MaxId : \E parent \in Forests(n) : \E extra \in Extras(n) :
    \E fragments \in SUBSET (1..n) : \E measures \in {<<>>, FooRender} :
        json = Export(
                 <<RootData(ArrayForm(PairsOf(
                        [i \in 1..n |-> IF i \in fragments THEN NullName ELSE Foo],
                        [i \in 1..n |-> IF i \in fragments THEN FragmentTag ELSE ComponentTag],
                        WithExtra(ForestLists(parent, n), extra))), <<>>)>>,
                 measures)

MeasureChoices ==
    {Measure(Foo, 150, "render"), Measure(Foo, 0, "render"), Measure(MemoFoo, 4, "render")}

FiberChoices == {<<1, 4>>, <<2, 150>>, <<MaxId, 0>>}

\* One root entry: MaxId components named Foo (the last may be Memo(Foo)),
\* as a fan or as a chain, with every sequence of at most MaxMeasures render
\* measures and at most MaxFibers fiber durations.
QueueExport ==
    \E lists \in {Fan(MaxId), Chain(MaxId)} : \E last \in {Foo, MemoFoo} :
    \E measures \in SeqsUpTo(MeasureChoices, MaxMeasures) :
    \E fibers \in SeqsUpTo(FiberChoices, MaxFibers) :
        json = Export(
                 <<RootData(ObjectForm(ObjectOf(Reverse(PairsOf(
                        [i \in 1..MaxId |-> IF i = MaxId THEN last ELSE Foo],
                        [i \in 1..MaxId |-> ComponentTag], lists)))), fibers)>>,
                 measures)

DisplayNames == {NullName, App, Foo, AppRouter}

\* One root entry: a chain of at most MaxId nodes with every choice of
\* display names, at most one of them a fragment, as an array of pairs in
\* every order.
NameExport ==
    \E n \in 1..MaxId : \E names \in [1..n -> DisplayNames] : \E fragment \in 0..n :
    \E pairs \in Orders(PairsOf(names,
                    [i \in 1..n |-> IF i = fragment THEN FragmentTag ELSE ComponentTag],
                    Chain(n))) :
        json = Export(<<RootData(ArrayForm(pairs), <<<<1, 150>>>>)>>,
                      <<Measure(App, 4, "render")>>)

AppAndFoo ==
    <<<<1, SnapshotNode(Foo, ComponentTag, <<>>)>>,
      <<2, SnapshotNode(App, ComponentTag, <<1>>)>>>>

RootChoices ==
    {RootData(Absent, <<>>), RootData(Absent, <<<<1, 150>>>>),
     RootData(ArrayForm(<<>>), <<<<1, 150>>>>), RootData(ObjectForm(EmptyObject), <<>>),
     RootData(ArrayForm(AppAndFoo), <<<<1, 150>>, <<3, 4>>>>),
     RootData(ObjectForm(ObjectOf(AppAndFoo)), <<>>)}

\* At most MaxRoots root entries, each without snapshots, with an empty
\* table or with the table of App and Foo; one measure is no render measure
\* and one names no component.
RootExport ==
    \E roots \in SeqsUpTo(RootChoices, MaxRoots) :
        json = Export(roots, <<Measure(Foo, 150, "layout-effect"),
                               Measure(NullName, 150, "render"),
                               Measure(Foo, 4, "render")>>)

-----------------------------------------------------------------------------
(* The call *)

\* The deepest call stack a table without a cycle in its child ids needs: one
\* call per node and one for an id the table does not hold.  A deeper stack
\* holds an id twice, and the recursion does not end.
StackLimit == MaxId + 1

Frame(id) == [id |-> id, kids |-> <<>>]

Top == stack[Len(stack)]

TopNode == Get(snapshots, Top.id)

Pop == SubSeq(stack, 1, Len(stack) - 1)

Roots == json.dataForRoots

Init ==
    /\ ShapeExport \/ QueueExport \/ NameExport \/ RootExport
    /\ call = 1
    /\ first = <<>>
    /\ pc = "measures"
    /\ err = "none"
    /\ componentDurations = <<>>
    /\ componentTotalDurations = <<>>
    /\ r = 1
    /\ snapshots = EmptyObject
    /\ rootId = <<>>
    /\ stack = <<>>
    /\ ret = <<>>
    /\ result = <<>>
    /\ log = <<>>

\* parser.ts:102-118
IndexMeasures ==
    /\ pc = "measures"
    /\ componentDurations' = ScanMeasures(<<>>, json.componentMeasures)
    /\ pc' = "fibers"
    /\ UNCHANGED <<json, call, first, err, componentTotalDurations, r, snapshots,
                   rootId, stack, ret, result, log>>

\* parser.ts:121-148, one root entry
IndexFibers ==
    /\ pc = "fibers"
    /\ r <= Len(Roots)
    /\ LET snap == Normalize(Roots[r].snapshots)
           fibers == Roots[r].fiberActualDurations
       IN  /\ fibers # <<>> => snap # <<>>
           /\ componentTotalDurations' =
                 IF fibers = <<>> THEN componentTotalDurations
                 ELSE ScanFibers(componentTotalDurations, snap[1], fibers)
    /\ r' = r + 1
    /\ UNCHANGED <<json, call, first, pc, err, componentDurations, snapshots,
                   rootId, stack, ret, result, log>>

\* parser.ts:134: snapshots[fiberId] when root.snapshots is undefined
IndexFibersThrows ==
    /\ pc = "fibers"
    /\ r <= Len(Roots)
    /\ Roots[r].fiberActualDurations # <<>>
    /\ Normalize(Roots[r].snapshots) = <<>>
    /\ pc' = "threw"
    /\ err' = "TypeError"
    /\ UNCHANGED <<json, call, first, componentDurations, componentTotalDurations, r,
                   snapshots, rootId, stack, ret, result, log>>

\* parser.ts:148 -> 246
IndexDone ==
    /\ pc = "fibers"
    /\ r > Len(Roots)
    /\ pc' = "roots"
    /\ r' = 1
    /\ UNCHANGED <<json, call, first, err, componentDurations, componentTotalDurations,
                   snapshots, rootId, stack, ret, result, log>>

\* parser.ts:255: Object.keys(snapshots) when root.snapshots is undefined
RootThrows ==
    /\ pc = "roots"
    /\ r <= Len(Roots)
    /\ Normalize(Roots[r].snapshots) = <<>>
    /\ pc' = "threw"
    /\ err' = "TypeError"
    /\ UNCHANGED <<json, call, first, componentDurations, componentTotalDurations, r,
                   snapshots, rootId, stack, ret, result, log>>

\* parser.ts:256: if (snapshotIds.length === 0) continue
SkipRoot ==
    /\ pc = "roots"
    /\ r <= Len(Roots)
    /\ Normalize(Roots[r].snapshots) # <<>>
    /\ Len(ObjectKeys(Normalize(Roots[r].snapshots)[1])) = 0
    /\ r' = r + 1
    /\ UNCHANGED <<json, call, first, pc, err, componentDurations,
                   componentTotalDurations, snapshots, rootId, stack, ret, result, log>>

\* parser.ts:246-278, up to the call of buildNode(rootId, snapshots)
StartRoot ==
    /\ pc = "roots"
    /\ r <= Len(Roots)
    /\ Normalize(Roots[r].snapshots) # <<>>
    /\ LET snap == Normalize(Roots[r].snapshots)[1]
       IN  /\ Len(ObjectKeys(snap)) > 0
           /\ snapshots' = snap
           /\ rootId' = <<SelectRoot(snap)>>
           /\ stack' = <<Frame(SelectRoot(snap))>>
    /\ pc' = "build"
    /\ UNCHANGED <<json, call, first, err, componentDurations, componentTotalDurations,
                   r, ret, result, log>>

\* parser.ts:153-155
BuildStub ==
    /\ pc = "build" /\ stack # <<>> /\ ret = <<>>
    /\ TopNode = <<>>
    /\ ret' = <<Stub>>
    /\ stack' = Pop
    /\ UNCHANGED <<json, call, first, pc, err, componentDurations,
                   componentTotalDurations, r, snapshots, rootId, result, log>>

\* parser.ts:160-161, the call
Unwrap ==
    /\ pc = "build" /\ stack # <<>> /\ ret = <<>>
    /\ TopNode # <<>>
    /\ IsUnwrapped(TopNode[1])
    /\ Len(stack) < StackLimit
    /\ stack' = Append(stack, Frame(TopNode[1].children[1]))
    /\ UNCHANGED <<json, call, first, pc, err, componentDurations,
                   componentTotalDurations, r, snapshots, rootId, ret, result, log>>

\* parser.ts:161, the return
UnwrapReturn ==
    /\ pc = "build" /\ stack # <<>> /\ ret # <<>>
    /\ IsUnwrapped(TopNode[1])
    /\ stack' = Pop
    /\ UNCHANGED <<json, call, first, pc, err, componentDurations,
                   componentTotalDurations, r, snapshots, rootId, ret, result, log>>

\* parser.ts:172, the call for the next child id
Descend ==
    /\ pc = "build" /\ stack # <<>> /\ ret = <<>>
    /\ TopNode # <<>>
    /\ ~IsUnwrapped(TopNode[1])
    /\ Len(Top.kids) < Len(TopNode[1].children)
    /\ Len(stack) < StackLimit
    /\ stack' = Append(stack, Frame(TopNode[1].children[Len(Top.kids) + 1]))
    /\ UNCHANGED <<json, call, first, pc, err, componentDurations,
                   componentTotalDurations, r, snapshots, rootId, ret, result, log>>

\* parser.ts:172, the return
ReceiveChild ==
    /\ pc = "build" /\ stack # <<>> /\ ret # <<>>
    /\ ~IsUnwrapped(TopNode[1])
    /\ stack' = [stack EXCEPT ![Len(stack)].kids = AppendChild(@, ret[1])]
    /\ ret' = <<>>
    /\ UNCHANGED <<json, call, first, pc, err, componentDurations,
                   componentTotalDurations, r, snapshots, rootId, result, log>>

\* parser.ts:173-243, once every child is built
Finish ==
    /\ pc = "build" /\ stack # <<>> /\ ret = <<>>
    /\ TopNode # <<>>
    /\ ~IsUnwrapped(TopNode[1])
    /\ Len(Top.kids) = Len(TopNode[1].children)
    /\ LET componentName == CanonicalName(DisplayNameOf(TopNode[1]))
           actualDuration == Taken(componentTotalDurations, componentName)
           duration == Taken(componentDurations, componentName)
           built == BuildOutput(TopNode[1], Top.kids, actualDuration, duration)
       IN  /\ componentTotalDurations' = AfterTaken(componentTotalDurations, componentName)
           /\ componentDurations' = AfterTaken(componentDurations, componentName)
           /\ ret' = <<built>>
           /\ log' = Append(log, [id |-> Top.id, name |-> componentName,
                                  actualDuration |-> actualDuration,
                                  duration |-> duration, node |-> built])
    /\ stack' = Pop
    /\ UNCHANGED <<json, call, first, pc, err, r, snapshots, rootId, result>>

\* A call of buildNode that the call stack has no room for.
StackOverflow ==
    /\ pc = "build" /\ stack # <<>> /\ ret = <<>>
    /\ TopNode # <<>>
    /\ IsUnwrapped(TopNode[1]) \/ Len(Top.kids) < Len(TopNode[1].children)
    /\ Len(stack) >= StackLimit
    /\ pc' = "threw"
    /\ err' = "RangeError"
    /\ UNCHANGED <<json, call, first, componentDurations, componentTotalDurations, r,
                   snapshots, rootId, stack, ret, result, log>>

\* parser.ts:278: result.push(...)
PushResult ==
    /\ pc = "build" /\ stack = <<>> /\ ret # <<>>
    /\ result' = Append(result, ret[1])
    /\ ret' = <<>>
    /\ r' = r + 1
    /\ pc' = "roots"
    /\ UNCHANGED <<json, call, first, err, componentDurations, componentTotalDurations,
                   snapshots, rootId, stack, log>>

\* parser.ts:281
Return ==
    /\ pc = "roots"
    /\ r > Len(Roots)
    /\ pc' = "done"
    /\ UNCHANGED <<json, call, first, err, componentDurations, componentTotalDurations,
                   r, snapshots, rootId, stack, ret, result, log>>

\* What a call leaves: how it ended, the trees it returned (none when it
\* threw) and the durations its lookups took.
Outcome ==
    [pc |-> pc, err |-> err, result |-> IF pc = "done" THEN result ELSE <<>>, log |-> log]

\* A second call, on the same export with its snapshot tables re-encoded.
CallReEncoded ==
    /\ pc \in {"done", "threw"}
    /\ call = 1
    /\ json' = ReEncoded(json)
    /\ call' = 2
    /\ first' = <<Outcome>>
    /\ pc' = "measures"
    /\ err' = "none"
    /\ componentDurations' = <<>>
    /\ componentTotalDurations' = <<>>
    /\ r' = 1
    /\ snapshots' = EmptyObject
    /\ rootId' = <<>>
    /\ stack' = <<>>
    /\ ret' = <<>>
    /\ result' = <<>>
    /\ log' = <<>>

Next ==
    \/ IndexMeasures
    \/ IndexFibers
    \/ IndexFibersThrows
    \/ IndexDone
    \/ RootThrows
    \/ SkipRoot
    \/ StartRoot
    \/ BuildStub
    \/ Unwrap
    \/ UnwrapReturn
    \/ Descend
    \/ ReceiveChild
    \/ Finish
    \/ StackOverflow
    \/ PushResult
    \/ Return
    \/ CallReEncoded

Spec == Init /\ [][Next]_vars

-----------------------------------------------------------------------------
(* Definitions the properties are stated with *)

\* The nodes of an output tree.
RECURSIVE NodesOf(_)
NodesOf(tree) ==
    {tree} \cup
    (IF tree.children = <<>> THEN {}
     ELSE UNION {NodesOf(tree.children[1][i]) : i \in 1..Len(tree.children[1])})

ResultNodes == UNION {NodesOf(result[i]) : i \in 1..Len(result)}

\* The nodes of an output tree that buildNode built from a snapshot node
\* (the stub has no tooltip), children before their parent, left to right.
RECURSIVE PostOrder(_)
RECURSIVE PostOrderAll(_)
PostOrder(tree) ==
    (IF tree.children = <<>> THEN <<>> ELSE PostOrderAll(tree.children[1]))
    \o (IF tree.tooltip = <<>> THEN <<>> ELSE <<tree>>)
PostOrderAll(trees) ==
    IF trees = <<>> THEN <<>> ELSE PostOrder(Head(trees)) \o PostOrderAll(Tail(trees))

\* The sum of the values of a node's children.
ChildTotal(node) == IF node.children = <<>> THEN 0 ELSE SumValues(node.children[1])

\* The duration a lookup attached to its node.
Attached(e) == IF e.actualDuration # <<>> THEN e.actualDuration ELSE e.duration

\* round(10 * d) of a duration d in hundredths: the integer nearest to d / 10,
\* the upper one of two.
Nearest(d) == CHOOSE v \in 0..(d + 1) : 10 * v - 5 <= d /\ d < 10 * v + 5

\* The lookups of one canonical name, in time order.
RECURSIVE EventsOf(_, _)
EventsOf(events, name) ==
    IF events = <<>> THEN <<>>
    ELSE (IF Head(events).name = name THEN <<Head(events)>> ELSE <<>>)
         \o EventsOf(Tail(events), name)

\* The render measures recorded for each name, in scan order.
RecordedMeasures == ScanMeasures(<<>>, json.componentMeasures)

\* The fiber durations recorded for each name, in scan order.
RECURSIVE RecordedFibersFrom(_, _)
RecordedFibersFrom(q, i) ==
    IF i > Len(Roots) THEN q
    ELSE RecordedFibersFrom(
             IF Roots[i].fiberActualDurations = <<>> \/ Normalize(Roots[i].snapshots) = <<>>
             THEN q
             ELSE ScanFibers(q, Normalize(Roots[i].snapshots)[1],
                             Roots[i].fiberActualDurations),
             i + 1)

RecordedFibers == RecordedFibersFrom(<<>>, 1)

QueueOf(q, name) == IF name \in DOMAIN q THEN q[name] ELSE <<>>

\* a is b with some entries left out.
RECURSIVE IsSubsequence(_, _)
IsSubsequence(a, b) ==
    IF a = <<>> THEN TRUE
    ELSE IF b = <<>> THEN FALSE
    ELSE IF Head(a) = Head(b) THEN IsSubsequence(Tail(a), Tail(b))
    ELSE IsSubsequence(a, Tail(b))

FromFiber(e) == e.actualDuration # <<>>
FromMeasure(e) == e.actualDuration = <<>> /\ e.duration # <<>>

\* The durations that the lookups events attached from the fiber queue, and
\* from the render-measure queue, in time order.
FiberAttached(events) ==
    LET t == SelectSeq(events, FromFiber) IN [i \in 1..Len(t) |-> t[i].actualDuration[1]]
MeasureAttached(events) ==
    LET t == SelectSeq(events, FromMeasure) IN [i \in 1..Len(t) |-> t[i].duration[1]]

LoggedNames == {log[i].name : i \in 1..Len(log)}

-----------------------------------------------------------------------------
(* The properties *)

\* C1: every node of every tree the call has built (the trees of result and
\* the tree just returned) has a value that is an integer >= 1 and a name
\* that is not empty, and has no children field or at least one child.
C1_WellFormedNodes ==
    \A node \in ResultNodes \cup (IF ret = <<>> THEN {} ELSE NodesOf(ret[1])) :
        /\ node.value \in Int
        /\ node.value >= 1
        /\ node.name # <<>>
        /\ \A i \in 1..Len(node.name) : node.name[i] # ""
        /\ node.children # <<>> => Len(node.children[1]) > 0

\* A returned tree that holds a node matched with the duration 0 which has
\* children, the stub among them.
C1_Witness ==
    /\ pc = "done"
    /\ \E node \in ResultNodes :
        /\ node.backgroundColor = <<"#22c55e">>
        /\ node.children # <<>>
        /\ \E i \in 1..Len(node.children[1]) : node.children[1][i] = Stub

C4_MeasureOnlyAsFallback ==
    \A i \in 1..Len(log) : log[i].actualDuration = <<>> \/ log[i].duration = <<>>

\* C8: no root entry makes the call throw a TypeError, and the call returns
\* one tree per root entry whose table is not empty.
C8_NoTreeAndNoError ==
    /\ err # "TypeError"
    /\ pc = "done" =>
          Len(result) = Cardinality({i \in 1..Len(Roots) :
              \/ Len(Roots[i].snapshots.pairs) > 0
              \/ Len(Roots[i].snapshots.obj.keys) > 0})

\* C9: whatever the child id lists hold, the recursion ends: the call stack
\* never runs out.
C9_RecursionEnds == err # "RangeError"

C5_SameOutcome == (call = 2 /\ pc \in {"done", "threw"}) => Outcome = first[1]

\* The second call has returned a tree with a node matched with a fiber
\* duration, for a table of two or more nodes given first as an array of
\* pairs that is not in ascending order of id.
C5_Witness ==
    /\ call = 2
    /\ pc = "done"
    /\ Len(result) > 0
    /\ \E i \in 1..Len(log) : log[i].actualDuration # <<>>
    /\ \E i \in 1..Len(Roots) :
        /\ Roots[i].snapshots.form = "object"
        /\ Len(Roots[i].snapshots.obj.keys) >= 2
        /\ Reverse(Roots[i].snapshots.obj.keys) # ObjectKeys(Roots[i].snapshots.obj)

\* The position of id in the table's order of ids.
Position(id) == CHOOSE i \in 1..Len(ObjectKeys(snapshots)) : ObjectKeys(snapshots)[i] = id

\* C6: the root is a node named 'App' or with 'Router' in its name when the
\* table has one; otherwise the first node in table order with a display
\* name; otherwise the first id in table order.
C6_RootSelection ==
    rootId # <<>> =>
        LET ids    == DOMAIN snapshots.val
            nameOf(id) == snapshots.val[id].displayName
            marked == {id \in ids : nameOf(id) = <<"App">>
                                    \/ \E i \in 1..Len(nameOf(id)) : nameOf(id)[i] = "Router"}
            named  == {id \in ids : nameOf(id) # <<>>}
        IN  IF marked # {} THEN rootId[1] \in marked
            ELSE IF named # {}
                 THEN /\ rootId[1] \in named
                      /\ \A id \in named : Position(rootId[1]) <= Position(id)
                 ELSE Position(rootId[1]) = 1

\* A table with 'Foo' before 'App': the root is the 'App' node.
C6_Witness ==
    /\ rootId # <<>>
    /\ snapshots.val[rootId[1]].displayName = <<"App">>
    /\ \E id \in DOMAIN snapshots.val :
        snapshots.val[id].displayName = <<"Foo">> /\ Position(id) < Position(rootId[1])

\* The call at the top of the stack is for a fragment: a node of type 11.
TopIsFragment == pc = "build" /\ stack # <<>> /\ TopNode # <<>> /\ TopNode[1].type = 11

\* C7: a call for a fragment with exactly one child calls buildNode for that
\* child and returns what that call returns; it takes nothing from the
\* queues and adds no node.  A call for a fragment with no child or with
\* several builds a node as for any other snapshot node: it receives the
\* children built and returns a node of its own.
C7_FragmentUnwrapping ==
    [][/\ (TopIsFragment /\ Len(TopNode[1].children) = 1) =>
            /\ componentDurations' = componentDurations
            /\ componentTotalDurations' = componentTotalDurations
            /\ log' = log
            /\ ret' = ret
            /\ IF ret = <<>>
               THEN \/ stack' = Append(stack, [id |-> TopNode[1].children[1], kids |-> <<>>])
                    \/ pc' = "threw"
               ELSE stack' = SubSeq(stack, 1, Len(stack) - 1)
       /\ (TopIsFragment /\ Len(TopNode[1].children) # 1 /\ ret # <<>>) =>
            /\ ret' = <<>>
            /\ Len(stack') = Len(stack)
            /\ stack'[Len(stack)].kids = Append(Top.kids, ret[1])
       /\ (TopIsFragment /\ Len(TopNode[1].children) # 1 /\ ret = <<>>
           /\ Len(Top.kids) = Len(TopNode[1].children)) =>
            /\ Len(log') = Len(log) + 1
            /\ ret' # <<>>
            /\ ret'[1].tooltip # <<>>
            /\ ChildTotal(ret'[1]) = SumValues(Top.kids)
      ]_vars

\* A fragment with one child is about to return the node built for its
\* child, which was matched with a duration, while a queue still holds a
\* render measure.
C7_Witness ==
    /\ TopIsFragment
    /\ Len(TopNode[1].children) = 1
    /\ ret # <<>>
    /\ ret[1].tooltip # <<>>
    /\ ret[1].backgroundColor # <<"#9ca3af">>
    /\ \E name \in DOMAIN componentDurations : Len(componentDurations[name]) > 0

\* C10: the lookups happen in post-order: the nodes in the order of their
\* lookups are the built nodes of the returned trees, each tree's children
\* before their parent and left to right; a node that is in no returned tree
\* made no lookup.
C10_PostOrderLookups ==
    pc \in {"roots", "done"} => [i \in 1..Len(log) |-> log[i].node] = PostOrderAll(result)

\* A node and its descendant of the same name, with two render measures
\* recorded for the name: the descendant got the first, the ancestor the
\* second.
C10_Witness ==
    /\ pc = "done"
    /\ \E i \in 1..Len(log) : \E j \in (i + 1)..Len(log) :
        /\ log[i].name = log[j].name
        /\ log[i].node \in NodesOf(log[j].node)
        /\ QueueOf(RecordedFibers, log[i].name) = <<>>
        /\ Len(QueueOf(RecordedMeasures, log[i].name)) = 2
        /\ RecordedMeasures[log[i].name][1] # RecordedMeasures[log[i].name][2]
        /\ log[i].duration = <<RecordedMeasures[log[i].name][1]>>
        /\ log[j].duration = <<RecordedMeasures[log[i].name][2]>>

=============================================================================
